---- MODULE Spec2Model ----
(***************************************************************************)
(* Verification-transaction cache-and-billing pipeline of the KYC gateway. *)
(*                                                                         *)
(* The model follows one user's verification requests through the          *)
(* handlers of src/handlers, the transaction store of                      *)
(* src/repositories/kyc_repository.py and the ledger of                    *)
(* src/repositories/user_ledger_transaction_repository.py.  Every database *)
(* read and every database write of a handler is one step, so that the     *)
(* steps of two requests interleave the way two worker threads do.         *)
(*                                                                         *)
(* All requests of one behaviour are for one document type (service):      *)
(* requests of different types share nothing but User.credits, the cache   *)
(* lookup being filtered by api_name.                                      *)
(***************************************************************************)
EXTENDS Integers, Sequences, FiniteSets, TLC

\* ------------------------------------------------------------------ bounds
MaxRequests == 2        \* operations started in a concurrent behaviour
MaxSeqRequests == 3     \* operations started in a sequential behaviour
MaxPurchases == 1       \* credit purchases among them

NReq == IF MaxRequests > MaxSeqRequests THEN MaxRequests ELSE MaxSeqRequests
Requests == 1..NReq

Keys == {"k1", "k2"}    \* the identifiers requests ask for
Workers == {"w1", "w2"} \* the threads that serve requests at the same time
DefaultCredits == 10    \* User.credits of a newly registered user
CreditPack == 10        \* credits_purchased of the one order of the model

\* ----------------------------------------------------------- configuration
PipelineTypes == {"KYC_VOTER", "KYC_DL", "KYC_PASSPORT", "KYC_AADHAAR",
                  "KYC_MOBILE_LOOKUP", "KYB_GSTIN"}
LegacyTypes == {"KYC_PAN", "KYC_RC"}
DocTypes == PipelineTypes \cup LegacyTypes

\* KYCServiceBillableStatus
BillableStatus(t) ==
  IF t = "KYC_MOBILE_LOOKUP" THEN {"FOUND"} ELSE {"FOUND", "NOT_FOUND"}

\* the status list the legacy PAN and RC handlers write out in place
LegacyBillable == {"FOUND", "NOT_FOUND"}

\* ServicePricing.get_service_cost: the costs are read from the environment;
\* the model prices the types at half or all of a new user's credits.
get_service_cost(t) ==
  CASE t \in {"KYC_RC", "KYC_VOTER", "KYC_PASSPORT", "KYC_MOBILE_LOOKUP"} -> 5
    [] t \in {"KYC_PAN", "KYC_DL", "KYC_AADHAAR", "KYB_GSTIN"} -> 10
    [] t \in {"EV_EMPLOYMENT_LATEST", "EV_EMPLOYMENT_HISTORY"} -> 10
    [] OTHER -> 0

\* UserLedgerTransactionType.has_value
has_value(t) == t \in DocTypes \cup {"CREDIT", "EV_EMPLOYMENT_LATEST",
                                       "EV_EMPLOYMENT_HISTORY"}

\* the field of kyc_transaction_details that holds the identifier
KeyField(t) ==
  CASE t = "KYC_PAN" -> "pan"
    [] t = "KYC_RC" -> "reg_no"
    [] t = "KYC_VOTER" -> "epic_no"
    [] t = "KYC_DL" -> "dl_no"
    [] t = "KYC_PASSPORT" -> "file_number"
    [] t = "KYC_AADHAAR" -> "aadhaar"
    [] t = "KYC_MOBILE_LOOKUP" -> "mobile"
    [] t = "KYB_GSTIN" -> "gstin"
    [] OTHER -> "none"

\* ---------------------------------------------------------------- provider
\* A provider answer: the HTTP status, the status_code of the JSON body
\* (0 when the body has none) and the rest of the body.
NoCode == 0
ProviderAnswers ==
  { [http |-> 200, code |-> 100, body |-> "b1"],
    [http |-> 200, code |-> 100, body |-> "b2"],
    [http |-> 200, code |-> 102, body |-> "b1"],
    [http |-> 200, code |-> NoCode, body |-> "b1"],
    [http |-> 400, code |-> NoCode, body |-> "b1"] }

\* kyc_provider_response: the stored JSON body; {} is the DictField default
EmptyResp == [code |-> NoCode, body |-> "empty"]
BodyOf(a) == [code |-> a.code, body |-> a.body]
Truthy(resp) == resp # EmptyResp

\* ------------------------------------------------------------- classifiers
\* VoterHandler.__determine_status
VoterStatus(http, code) ==
  IF http = 200
    THEN (IF code = 100 THEN "FOUND" ELSE IF code = 102 THEN "NOT_FOUND" ELSE "ERROR")
    ELSE IF http = 400 THEN "BAD_REQUEST" ELSE "ERROR"

\* DLHandler.__determine_status, PassportHandler.__determine_status
DLStatus(http, code) ==
  IF http = 200
    THEN (IF code = 100 THEN "FOUND"
          ELSE IF code = 101 THEN "FOUND"
          ELSE IF code = 102 THEN "NOT_FOUND" ELSE "ERROR")
    ELSE IF http = 400 THEN "BAD_REQUEST" ELSE "ERROR"

\* an Aadhaar classifier without the branch for http 503
AadhaarStatus_No503(http, code) ==
  IF http = 200
    THEN (IF code = 100 THEN "FOUND"
          ELSE IF code = 101 THEN "FOUND"
          ELSE IF code = 102 THEN "NOT_FOUND" ELSE "ERROR")
    ELSE IF http = 400 THEN "BAD_REQUEST" ELSE "ERROR"

\* AadhaarHandler.__determine_status
AadhaarStatus(http, code) ==
  IF http = 200
    THEN (IF code = 100 THEN "FOUND"
          ELSE IF code = 101 THEN "FOUND"
          ELSE IF code = 102 THEN "NOT_FOUND" ELSE "ERROR")
    ELSE IF http = 400 THEN "BAD_REQUEST"
    ELSE IF http = 503 THEN "SOURCE_DOWN" ELSE "ERROR"

\* MobileLookupHandler.__determine_status
MobileStatus(http) ==
  IF http = 200 THEN "FOUND"
  ELSE IF http = 206 THEN "PARTIAL_CONTENT"
  ELSE IF http = 400 THEN "BAD_REQUEST"
  ELSE IF http = 429 THEN "TOO_MANY_REQUESTS"
  ELSE IF http = 503 THEN "SOURCE_DOWN" ELSE "ERROR"

\* GSTINHandler.__determine_status
GSTINStatus(http) ==
  IF http = 200 THEN "FOUND"
  ELSE IF http = 400 THEN "BAD_REQUEST"
  ELSE IF http = 404 THEN "NOT_FOUND"
  ELSE IF http = 429 THEN "TOO_MANY_REQUESTS"
  ELSE IF http = 503 THEN "SOURCE_DOWN" ELSE "ERROR"

\* PanHandler._determine_status: the body's status_code is looked at first,
\* whatever the HTTP status
PanStatus(http, code) ==
  IF code \in {100, 101} THEN "FOUND"
  ELSE IF code = 102 THEN "NOT_FOUND"
  ELSE IF http = 200 THEN "FOUND"
  ELSE IF http = 400 THEN "BAD_REQUEST" ELSE "ERROR"

\* an RC classifier that names http 206 the way the lookup classifiers do
RCStatus_PartialContent(http) ==
  IF http = 200 THEN "FOUND"
  ELSE IF http = 206 THEN "PARTIAL_CONTENT"
  ELSE IF http = 400 THEN "BAD_REQUEST"
  ELSE IF http = 429 THEN "TOO_MANY_REQUESTS" ELSE "ERROR"

\* RCHandler._determine_status
RCStatus(http) ==
  IF http = 200 THEN "FOUND"
  ELSE IF http = 206 THEN "NOT_FOUND"
  ELSE IF http = 400 THEN "BAD_REQUEST"
  ELSE IF http = 429 THEN "TOO_MANY_REQUESTS" ELSE "ERROR"

\* EmailLookupHandler.__determine_status
EmailStatus(http) ==
  IF http = 200 THEN "FOUND"
  ELSE IF http = 206 THEN "PARTIAL_CONTENT"
  ELSE IF http = 400 THEN "BAD_REQUEST"
  ELSE IF http = 429 THEN "TOO_MANY_REQUESTS"
  ELSE IF http = 503 THEN "SOURCE_DOWN" ELSE "ERROR"

\* EmploymentLatestHandler.__determine_status
EmploymentStatus(http, code) ==
  IF http = 200
    THEN (IF code = 100 THEN "FOUND"
          ELSE IF code = 101 THEN "BAD_REQUEST"
          ELSE IF code = 102 THEN "NOT_FOUND" ELSE "ERROR")
    ELSE IF http = 400 THEN "BAD_REQUEST" ELSE "ERROR"

\* the classifier of a document type's handler
determine_status(t, http, code) ==
  CASE t = "KYC_VOTER" -> VoterStatus(http, code)
    [] t \in {"KYC_DL", "KYC_PASSPORT"} -> DLStatus(http, code)
    [] t = "KYC_AADHAAR" -> AadhaarStatus(http, code)
    [] t = "KYC_MOBILE_LOOKUP" -> MobileStatus(http)
    [] t = "KYB_GSTIN" -> GSTINStatus(http)
    [] t = "KYC_PAN" -> PanStatus(http, code)
    [] t = "KYC_RC" -> RCStatus(http)
    [] t = "KYC_EMAIL_LOOKUP" -> EmailStatus(http)
    [] t = "EV_EMPLOYMENT_LATEST" -> EmploymentStatus(http, code)
    [] OTHER -> "ERROR"

\* PanHandler._handle_cached_record, RCHandler._handle_cached_record: the
\* status is worked out again from the cached record
PanCachedStatus(http, code) ==
  IF http = 200
    THEN (IF code = 100 THEN "FOUND"
          ELSE IF code = 101 THEN "FOUND"
          ELSE IF code = 102 THEN "NOT_FOUND" ELSE "ERROR")
    ELSE IF http = 400 THEN "BAD_REQUEST" ELSE "ERROR"

LegacyCachedStatus(t, http, code) ==
  IF t = "KYC_PAN" THEN PanCachedStatus(http, code) ELSE RCStatus(http)

\* ------------------------------------------------------------------- state
VARIABLES
  service,    \* the document type the behaviour's requests are for
  credits,    \* User.credits
  ledger,     \* the UserLedgerTransaction collection, in insertion order
  txns,       \* the KYCValidationTransaction collection, in insertion order
  reqs,       \* the verification requests: each one's position and locals
  started,    \* number of verification requests started
  pay,        \* the payment callback being served
  purchases,  \* number of credit purchases started
  cls,        \* the classifier run of the classification table checks
  call,       \* the Provider Client call of the retry checks
  emp,      \* an Employment-Latest cache lookup: stored details, request, result
  score,    \* a Mobile or Email Lookup answer and the scores put into it
  elig,     \* an eligibility check and a deduction for a service name
  ptx,      \* one PaymentTransaction and the callbacks and webhook events received for it
  auth      \* the RefreshToken collection, the tokens issued, the clock

vars == <<service, credits, ledger, txns, reqs, started, pay, purchases,
          cls, call, emp, score, elig, ptx, auth>>

NoTxn == [api |-> "none", field |-> "none", key |-> "none", status |-> "none",
          http |-> 0, provider |-> "none", is_cached |-> FALSE,
          resp |-> EmptyResp, req |-> 0, writes |-> 0]
NoAnswer == [http |-> 0, code |-> NoCode, body |-> "none"]

IdleReq == [pc |-> "idle", key |-> "none", seen |-> -1, pre |-> {}, txn |-> 0,
            src |-> 0,
            cached |-> NoTxn, answer |-> NoAnswer, status |-> "none", http |-> 0,
            calls |-> 0, log |-> <<>>, prev |-> 0, bal |-> 0,
            out |-> "none", ret |-> EmptyResp]
IdlePay == [pc |-> "idle", prev |-> 0, bal |-> 0]
NoClass == [t |-> "none", http |-> 0, code |-> NoCode, status |-> "none",
            cached |-> "none"]
NoCall == [pc |-> "idle", attempt |-> 0, statuses |-> <<>>, result |-> 0]

NoEmp == [pc |-> "idle", stored |-> <<>>, request |-> <<>>,
          identifier |-> "none", hit |-> FALSE]

NoScores == [social_media_score |-> -1, ecommerce_score |-> -1,
             payment_score |-> -1, confidence_score |-> -1]
NoScore == [pc |-> "idle", t |-> "none", http |-> 0, registered |-> {},
            confidence_scores |-> NoScores]

NoElig == [pc |-> "idle", t |-> "none", balance |-> 0, cost |-> 0,
           eligible |-> FALSE, entry |-> [type |-> "none", amount |-> 0, balance |-> 0]]

PaymentIds == {"pay_1", "pay_2"}
NoPtx == [order_status |-> "pending", payment_status |-> "pending",
          payment_id |-> "none", granted |-> [p \in PaymentIds |-> 0],
          events |-> 0, last |-> "none"]

Users == {"u1", "u2"}
NoToken == [jti |-> 0, sub |-> "none", exp |-> 0]
NoAuth == [tokens |-> {}, issued |-> {}, revoked |-> [u \in Users |-> {}],
           now |-> 0, logout |-> "none",
           last |-> [token |-> NoToken, http |-> 0]]

Init ==
  /\ service \in DocTypes
  /\ credits = DefaultCredits
  /\ ledger = <<>>
  /\ txns = <<>>
  /\ reqs = [r \in Requests |-> IdleReq]
  /\ started = 0
  /\ pay = IdlePay
  /\ purchases = 0
  /\ cls = NoClass
  /\ call = NoCall
  /\ auth = NoAuth
  /\ ptx = NoPtx
  /\ elig = NoElig
  /\ score = NoScore
  /\ emp = NoEmp

InFlight(r) == reqs[r].pc \notin {"idle", "done"}
ActiveRequests == {r \in Requests : InFlight(r)}
Legacy == service \in LegacyTypes

\* --------------------------------------------------------- transaction store
\* KYCRepository.get_kyc_validation_transaction: the branches of the api_name
\* chain; an api_name without a branch (KYB_GSTIN) falls through to None (0)
HasLookupBranch(t) ==
  t \in {"KYC_PAN", "KYC_RC", "KYC_VOTER", "KYC_DL", "KYC_PASSPORT",
         "KYC_AADHAAR", "KYC_MOBILE_LOOKUP"}

\* a lookup query without the status filter
Matches_AnyStatus(tx, t, identifier, billable) ==
  /\ tx.api = t
  /\ tx.field = KeyField(t)
  /\ tx.key = identifier

Matches(tx, t, identifier, billable) ==
  /\ tx.api = t
  /\ tx.field = KeyField(t)
  /\ tx.key = identifier
  /\ tx.status \in billable

get_kyc_validation_transaction(store, t, identifier, billable) ==
  IF HasLookupBranch(t)
       /\ \E i \in 1..Len(store) : Matches(store[i], t, identifier, billable)
    THEN CHOOSE i \in 1..Len(store) :
           /\ Matches(store[i], t, identifier, billable)
           /\ \A j \in 1..(i - 1) : ~Matches(store[j], t, identifier, billable)
    ELSE 0

\* XHandler.__get_x_kyc_details_from_db: a found transaction is a hit only
\* when its kyc_provider_response is not empty
get_details_from_db(store, t, identifier) ==
  LET i == get_kyc_validation_transaction(store, t, identifier, BillableStatus(t))
  IN IF i # 0 /\ Truthy(store[i].resp) THEN i ELSE 0

\* KYCRepository.get_cached_record_pan / get_cached_record_vehicle
get_cached_record(store, t, identifier) ==
  IF \E i \in 1..Len(store) : Matches(store[i], t, identifier, LegacyBillable)
    THEN CHOOSE i \in 1..Len(store) :
           /\ Matches(store[i], t, identifier, LegacyBillable)
           /\ \A j \in 1..(i - 1) : ~Matches(store[j], t, identifier, LegacyBillable)
    ELSE 0

\* KYCRepository.create_kyc_validation_transaction as the handlers call it
Placeholder(t, r) ==
  [api |-> t, field |-> "none", key |-> "none", status |-> "ERROR",
   http |-> 500, provider |-> "INTERNAL", is_cached |-> FALSE,
   resp |-> EmptyResp, req |-> r, writes |-> 0]

Step(r, name) == Append(reqs[r].log, name)

\* ------------------------------------------------------- verification handler
\* The identifiers are interchangeable: a request asks for an identifier asked
\* for before, or for the first one not asked for yet.
KeyOrder == <<"k1", "k2">>
UsedKeys == {reqs[q].key : q \in {p \in Requests : reqs[p].pc # "idle"}}
NextKeys ==
  UsedKeys \cup {KeyOrder[i] : i \in {j \in 1..Len(KeyOrder) :
                                        \A h \in 1..(j - 1) : KeyOrder[h] \in UsedKeys}}

\* an eligibility check that only asks for a balance that is not negative
Eligible_NonNegative(t, balance) == balance >= 0

\* the eligibility check of a handler: User.credits against the type's cost
\* (pipeline handlers), UserLedgerTransactionHandler.check_if_eligible (PAN, RC)
Eligible(t, balance) ==
  IF t \in LegacyTypes
    THEN has_value(t) /\ balance >= get_service_cost(t)
    ELSE ~(balance < get_service_cost(t))

\* the transactions stored with status FOUND for an identifier (kept with the
\* request that starts, for the statements about earlier transactions)
StoredFound(k) ==
  {i \in 1..Len(txns) : txns[i].key = k /\ txns[i].status = "FOUND"}

CheckEligibility(r, k, conc, maxOps) ==
  /\ reqs[r].pc = "idle"
  /\ r = started + 1
  /\ started + purchases < maxOps
  /\ k \in NextKeys
  /\ IF conc THEN Cardinality(ActiveRequests) < Cardinality(Workers)
             ELSE ActiveRequests = {} /\ pay.pc = "idle"
  /\ started' = started + 1
  /\ IF Eligible(service, credits)
       THEN reqs' = [reqs EXCEPT ![r] = [@ EXCEPT
                       !.pc = IF Legacy THEN "lookup" ELSE "placeholder",
                       !.key = k, !.seen = credits, !.pre = StoredFound(k),
                       !.log = Step(r, "eligibility")]]
       ELSE reqs' = [reqs EXCEPT ![r] = [@ EXCEPT
                       !.pc = "done", !.key = k, !.seen = credits,
                       !.pre = StoredFound(k),
                       !.log = Step(r, "eligibility"),
                       !.out = "InsufficientCredits"]]
  /\ UNCHANGED <<auth, ptx, elig, score, emp, service, credits, ledger, txns, pay, purchases, cls, call>>

\* a handler that calls the provider right after creating the placeholder,
\* without looking the cache up
CreatePlaceholder_SkipLookup(r) ==
  /\ reqs[r].pc = "placeholder"
  /\ txns' = Append(txns, Placeholder(service, r))
  /\ reqs' = [reqs EXCEPT ![r] = [@ EXCEPT
                !.pc = "provider", !.txn = Len(txns) + 1,
                !.status = "ERROR", !.http = 500,
                !.log = Step(r, "placeholder")]]
  /\ UNCHANGED <<auth, ptx, elig, score, emp, service, credits, ledger, started, pay, purchases, cls, call>>

CreatePlaceholder(r) ==
  /\ reqs[r].pc = "placeholder"
  /\ txns' = Append(txns, Placeholder(service, r))
  /\ reqs' = [reqs EXCEPT ![r] = [@ EXCEPT
                !.pc = "lookup", !.txn = Len(txns) + 1,
                !.status = "ERROR", !.http = 500,
                !.log = Step(r, "placeholder")]]
  /\ UNCHANGED <<auth, ptx, elig, score, emp, service, credits, ledger, started, pay, purchases, cls, call>>

CacheLookup(r) ==
  /\ reqs[r].pc = "lookup"
  /\ LET i == IF Legacy THEN get_cached_record(txns, service, reqs[r].key)
                        ELSE get_details_from_db(txns, service, reqs[r].key)
     IN reqs' = [reqs EXCEPT ![r] = [@ EXCEPT
                   !.pc = IF i # 0 THEN "cached" ELSE "provider",
                   !.src = i,
                   !.cached = IF i # 0 THEN txns[i] ELSE NoTxn,
                   !.log = Step(r, "lookup")]]
  /\ UNCHANGED <<auth, ptx, elig, score, emp, service, credits, ledger, txns, started, pay, purchases, cls, call>>

\* a cache hit that writes the outcome onto the cached transaction it found
ServeCached_TouchSource(r) ==
  /\ reqs[r].pc = "cached"
  /\ ~Legacy
  /\ LET c == reqs[r].cached
     IN /\ txns' = [txns EXCEPT ![reqs[r].src] = [@ EXCEPT
                      !.is_cached = TRUE, !.provider = "INTERNAL",
                      !.writes = @ + 1]]
        /\ reqs' = [reqs EXCEPT ![r] = [@ EXCEPT
                      !.pc = "bill", !.status = c.status, !.http = c.http,
                      !.ret = c.resp, !.log = Step(r, "persist")]]
  /\ UNCHANGED <<auth, ptx, elig, score, emp, service, credits, ledger, started, pay, purchases, cls, call>>

\* a cache hit of a pipeline handler: the placeholder is updated in place with
\* the fields of the cached transaction
ServeCached(r) ==
  /\ reqs[r].pc = "cached"
  /\ ~Legacy
  /\ LET c == reqs[r].cached
     IN /\ txns' = [txns EXCEPT ![reqs[r].txn] = [@ EXCEPT
                      !.http = c.http, !.field = c.field, !.key = c.key,
                      !.resp = c.resp, !.status = c.status,
                      !.is_cached = TRUE, !.provider = "INTERNAL",
                      !.writes = @ + 1]]
        /\ reqs' = [reqs EXCEPT ![r] = [@ EXCEPT
                      !.pc = "bill", !.status = c.status, !.http = c.http,
                      !.ret = c.resp, !.log = Step(r, "persist")]]
  /\ UNCHANGED <<auth, ptx, elig, score, emp, service, credits, ledger, started, pay, purchases, cls, call>>

\* PanHandler._handle_cached_record, RCHandler._handle_cached_record: a new
\* transaction is inserted and the handler returns; nothing is deducted
LegacyServeCached(r) ==
  /\ reqs[r].pc = "cached"
  /\ Legacy
  /\ LET c == reqs[r].cached
         st == LegacyCachedStatus(service, c.http, c.resp.code)
     IN /\ txns' = Append(txns,
                     [api |-> service, field |-> KeyField(service),
                      key |-> reqs[r].key, status |-> st, http |-> c.http,
                      provider |-> "INTERNAL", is_cached |-> FALSE,
                      resp |-> c.resp, req |-> r, writes |-> 0])
        /\ reqs' = [reqs EXCEPT ![r] = [@ EXCEPT
                      !.pc = "done", !.txn = Len(txns) + 1, !.status = st,
                      !.http = c.http, !.ret = c.resp, !.out = "Returned",
                      !.log = Step(r, "persist")]]
  /\ UNCHANGED <<auth, ptx, elig, score, emp, service, credits, ledger, started, pay, purchases, cls, call>>

\* XService.call_external_api and response.json() give an answer
ProviderAnswer(r, a) ==
  /\ reqs[r].pc = "provider"
  /\ reqs' = [reqs EXCEPT ![r] = [@ EXCEPT
                !.pc = "update", !.answer = a, !.calls = @ + 1,
                !.log = Step(r, "provider")]]
  /\ UNCHANGED <<auth, ptx, elig, score, emp, service, credits, ledger, txns, started, pay, purchases, cls, call>>

\* the call or the parsing of the body raises: a pipeline handler lets the
\* exception through, its placeholder stays as it was created
ProviderRaises(r) ==
  /\ reqs[r].pc = "provider"
  /\ ~Legacy
  /\ reqs' = [reqs EXCEPT ![r] = [@ EXCEPT
                !.pc = "done", !.calls = @ + 1, !.out = "Raised",
                !.log = Step(r, "provider")]]
  /\ UNCHANGED <<auth, ptx, elig, score, emp, service, credits, ledger, txns, started, pay, purchases, cls, call>>

\* PanHandler._handle_exception, RCHandler._handle_exception: the exception
\* is caught, an ERROR transaction is inserted, a 500 response is returned
LegacyProviderRaises(r) ==
  /\ reqs[r].pc = "provider"
  /\ Legacy
  /\ txns' = Append(txns,
               [api |-> IF service = "KYC_PAN" THEN "PAN" ELSE "KYC_RC",
                field |-> KeyField(service), key |-> reqs[r].key,
                status |-> "ERROR", http |-> 500, provider |-> "AITAN",
                is_cached |-> FALSE, resp |-> EmptyResp, req |-> r,
                writes |-> 0])
  /\ reqs' = [reqs EXCEPT ![r] = [@ EXCEPT
                !.pc = "done", !.txn = Len(txns) + 1, !.calls = @ + 1,
                !.status = "ERROR", !.http = 500, !.out = "Returned",
                !.log = Step(r, "provider") \o <<"persist">>]]
  /\ UNCHANGED <<auth, ptx, elig, score, emp, service, credits, ledger, started, pay, purchases, cls, call>>

\* XHandler.__get_x_kyc_details_from_api after the call: the answer is
\* classified and the placeholder is updated in place
UpdateFromApi(r) ==
  /\ reqs[r].pc = "update"
  /\ ~Legacy
  /\ LET a == reqs[r].answer
         st == determine_status(service, a.http, a.code)
     IN /\ txns' = [txns EXCEPT ![reqs[r].txn] = [@ EXCEPT
                      !.http = a.http, !.field = KeyField(service),
                      !.key = reqs[r].key, !.resp = BodyOf(a), !.status = st,
                      !.is_cached = FALSE, !.provider = "AITAN",
                      !.writes = @ + 1]]
        /\ reqs' = [reqs EXCEPT ![r] = [@ EXCEPT
                      !.pc = "bill", !.status = st, !.http = a.http,
                      !.ret = BodyOf(a),
                      !.log = Step(r, "classify") \o <<"persist">>]]
  /\ UNCHANGED <<auth, ptx, elig, score, emp, service, credits, ledger, started, pay, purchases, cls, call>>

\* PanHandler.verify_pan, RCHandler.verify_vehicle after the call:
\* _determine_status, _create_transaction(..., is_cached=True), save
LegacySave(r) ==
  /\ reqs[r].pc = "update"
  /\ Legacy
  /\ LET a == reqs[r].answer
         st == determine_status(service, a.http, a.code)
     IN /\ txns' = Append(txns,
                     [api |-> "KYC_RC", field |-> KeyField(service),
                      key |-> reqs[r].key, status |-> st, http |-> a.http,
                      provider |-> "AITAN", is_cached |-> TRUE,
                      resp |-> BodyOf(a), req |-> r, writes |-> 0])
        /\ reqs' = [reqs EXCEPT ![r] = [@ EXCEPT
                      !.pc = "bill", !.txn = Len(txns) + 1, !.status = st,
                      !.http = a.http, !.ret = BodyOf(a),
                      !.log = Step(r, "classify") \o <<"persist">>]]
  /\ UNCHANGED <<auth, ptx, elig, score, emp, service, credits, ledger, started, pay, purchases, cls, call>>

\* ---------------------------------------------------------------- ledger
\* the statuses a handler deducts for
BillSet(t) == IF t \in LegacyTypes THEN LegacyBillable ELSE BillableStatus(t)

\* a handler that bills only while the user's ledger is still empty
ShouldDeduct_FirstOnly(t, status) ==
  status \in BillSet(t) /\ has_value(t) /\ ledger = <<>>

\* UserLedgerTransactionHandler.deduct_credits is entered for a billable status
ShouldDeduct(t, status) == status \in BillSet(t) /\ has_value(t)

\* a new balance computed with the sign of the amount reversed
NewBalance_SignReversed(current_balance, amount) == current_balance - amount

\* UserLedgerTransactionRepository.insert_ledger_txn_for_user: new_balance
NewBalance(current_balance, amount) == current_balance + amount

\* the end of a handler: no deduction for a status that is not billable;
\* otherwise deduct_credits starts and insert_ledger_txn_for_user reads
\* User.credits
Bill(r) ==
  /\ reqs[r].pc = "bill"
  /\ IF ShouldDeduct(service, reqs[r].status)
       THEN reqs' = [reqs EXCEPT ![r] = [@ EXCEPT
                       !.pc = "led_insert", !.prev = credits,
                       !.bal = NewBalance(credits, -get_service_cost(service)),
                       !.log = Step(r, "bill")]]
       ELSE reqs' = [reqs EXCEPT ![r] = [@ EXCEPT
                       !.pc = "done", !.out = "Returned"]]
  /\ UNCHANGED <<auth, ptx, elig, score, emp, service, credits, ledger, txns, started, pay, purchases, cls, call>>

\* insert_ledger_txn_for_user: new_txn.save()
LedgerInsert(r) ==
  /\ reqs[r].pc = "led_insert"
  /\ ledger' = Append(ledger,
                 [type |-> service, amount |-> -get_service_cost(service),
                  balance |-> reqs[r].bal, prev |-> reqs[r].prev, req |-> r])
  /\ reqs' = [reqs EXCEPT ![r] = [@ EXCEPT !.pc = "led_write"]]
  /\ UNCHANGED <<auth, ptx, elig, score, emp, service, credits, txns, started, pay, purchases, cls, call>>

\* UserRepository.update_user_credits: user.credits = latest_txn.balance
update_user_credits(balance) == balance

CreditsWrite(r) ==
  /\ reqs[r].pc = "led_write"
  /\ credits' = update_user_credits(reqs[r].bal)
  /\ reqs' = [reqs EXCEPT ![r] = [@ EXCEPT !.pc = "done", !.out = "Returned"]]
  /\ UNCHANGED <<auth, ptx, elig, score, emp, service, ledger, txns, started, pay, purchases, cls, call>>

\* --------------------------------------------------------------- payments
CanStartPurchase(conc, maxOps) ==
  /\ pay.pc = "idle"
  /\ purchases < MaxPurchases
  /\ started + purchases < maxOps
  /\ conc \/ ActiveRequests = {}

\* PaymentHandler._add_credits_to_user: increase_credits, and
\* insert_ledger_txn_for_user reads User.credits
PurchaseRead(conc, maxOps) ==
  /\ CanStartPurchase(conc, maxOps)
  /\ pay' = [pc |-> "led_insert", prev |-> credits,
             bal |-> NewBalance(credits, CreditPack)]
  /\ purchases' = purchases + 1
  /\ UNCHANGED <<auth, ptx, elig, score, emp, service, credits, ledger, txns, reqs, started, cls, call>>

PurchaseInsert ==
  /\ pay.pc = "led_insert"
  /\ ledger' = Append(ledger,
                 [type |-> "CREDIT", amount |-> CreditPack,
                  balance |-> pay.bal, prev |-> pay.prev, req |-> 0])
  /\ pay' = [pay EXCEPT !.pc = "led_write"]
  /\ UNCHANGED <<auth, ptx, elig, score, emp, service, credits, txns, reqs, started, purchases, cls, call>>

PurchaseWrite ==
  /\ pay.pc = "led_write"
  /\ credits' = update_user_credits(pay.bal)
  /\ pay' = IdlePay
  /\ UNCHANGED <<auth, ptx, elig, score, emp, service, ledger, txns, reqs, started, purchases, cls, call>>

\* PaymentRepository.verify_payment, PaymentRepository.manual_verify_payment
\* and the manual_verify_payment route: user = order.user
DirectRead(conc, maxOps) ==
  /\ CanStartPurchase(conc, maxOps)
  /\ pay' = [pc |-> "direct", prev |-> credits, bal |-> credits + CreditPack]
  /\ purchases' = purchases + 1
  /\ UNCHANGED <<auth, ptx, elig, score, emp, service, credits, ledger, txns, reqs, started, cls, call>>

\* user.credits += order.credits_purchased; user.save(): no ledger entry
DirectWrite ==
  /\ pay.pc = "direct"
  /\ credits' = pay.bal
  /\ pay' = IdlePay
  /\ UNCHANGED <<auth, ptx, elig, score, emp, service, ledger, txns, reqs, started, purchases, cls, call>>

\* ---------------------------------------------------------------- API layer
\* an endpoint whose except clauses are in the reverse order, the generic
\* one first
verify_endpoint_GenericFirst(out, http) ==
  IF out \in {"InsufficientCredits", "Raised"} THEN 400 ELSE http

\* the endpoints of routes/api/kyc_router.py and routes/dashboard/kyc_router.py:
\* the HTTP status the caller receives for a handler that raised
\* InsufficientCreditsException, raised anything else, or returned http
verify_endpoint(out, http) ==
  IF out = "InsufficientCredits" THEN 402
  ELSE IF out = "Raised" THEN 400
  ELSE http

\* the content of the endpoint's answer: the result on http 200; "Failure"
\* with the message of the handler's response in the error field on any
\* other returned status; the text of the exception when one was raised
verify_endpoint_content(out, http, ret) ==
  IF out = "InsufficientCredits"
    THEN [message |-> "Insufficient credits", error |-> "none", result |-> EmptyResp]
  ELSE IF out = "Raised"
    THEN [message |-> "exception", error |-> "none", result |-> EmptyResp]
  ELSE IF http # 200
    THEN [message |-> "Failure", error |-> ret.body, result |-> EmptyResp]
  ELSE [message |-> "Success", error |-> "none", result |-> ret]

\* ----------------------------------------------------------- specifications
NextWith(conc, maxOps) ==
  \/ \E r \in Requests, k \in Keys : CheckEligibility(r, k, conc, maxOps)
  \/ \E r \in Requests : CreatePlaceholder(r)
  \/ \E r \in Requests : CacheLookup(r)
  \/ \E r \in Requests : ServeCached(r)
  \/ \E r \in Requests : LegacyServeCached(r)
  \/ \E r \in Requests, a \in ProviderAnswers : ProviderAnswer(r, a)
  \/ \E r \in Requests : ProviderRaises(r)
  \/ \E r \in Requests : LegacyProviderRaises(r)
  \/ \E r \in Requests : UpdateFromApi(r)
  \/ \E r \in Requests : LegacySave(r)
  \/ \E r \in Requests : Bill(r)
  \/ \E r \in Requests : LedgerInsert(r)
  \/ \E r \in Requests : CreditsWrite(r)
  \/ PurchaseRead(conc, maxOps)
  \/ PurchaseInsert
  \/ PurchaseWrite
  \/ DirectRead(conc, maxOps)
  \/ DirectWrite

\* requests and payment callbacks served by concurrent worker threads
Next == NextWith(TRUE, MaxRequests)
Spec == Init /\ [][Next]_vars

\* every operation runs to its end before the next one starts
SeqNext == NextWith(FALSE, MaxSeqRequests)
SeqSpec == Init /\ [][SeqNext]_vars

\* ------------------------------------------------------- provider errors
\* Sequential operations against a provider that also answers with an HTTP
\* error status, with or without a status_code in the body.
MaxErrRequests == 2
ErrorStatuses == {400, 429, 503}
ErrorAnswers ==
  { [http |-> h, code |-> c, body |-> "b2"] : h \in ErrorStatuses, c \in {NoCode, 100} }

ErrNext ==
  \/ NextWith(FALSE, MaxErrRequests)
  \/ \E r \in Requests, a \in ErrorAnswers : ProviderAnswer(r, a)
ErrSpec == Init /\ [][ErrNext]_vars

\* ------------------------------------------------------- provider client
\* BaseService.call_external_api: the loop `for attempt in range(max_retries)`
\* around requests.post. call.attempt is the loop variable, call.statuses the
\* status codes of the responses received so far.
max_retries == 3
ResponseStatuses == {200, 400, 404, 429, 500, 501, 502, 503, 504, 505}

\* a client that retries after every error status
Retryable_AnyError(status) == status >= 400

\* `response.status_code not in [500, 501, 502, 503, 504]` is false
Retryable(status) == status \in {500, 501, 502, 503, 504}

RetryInit ==
  /\ service = "KYC_PAN"
  /\ credits = DefaultCredits
  /\ ledger = <<>>
  /\ txns = <<>>
  /\ reqs = [r \in Requests |-> IdleReq]
  /\ started = 0
  /\ pay = IdlePay
  /\ purchases = 0
  /\ cls = NoClass
  /\ call = NoCall
  /\ auth = NoAuth
  /\ ptx = NoPtx
  /\ elig = NoElig
  /\ score = NoScore
  /\ emp = NoEmp

\* the call is entered and the loop starts with attempt 0
CallStart ==
  /\ call.pc = "idle"
  /\ call' = [call EXCEPT !.pc = IF max_retries > 0 THEN "post" ELSE "raised"]
  /\ UNCHANGED <<auth, ptx, elig, score, emp, service, credits, ledger, txns, reqs, started, pay, purchases, cls>>

\* requests.post returns a response with status s: break on a status that is
\* not retried; otherwise sleep, and go round again while range(max_retries)
\* has a next value
Post(s) ==
  /\ call.pc = "post"
  /\ call' = [call EXCEPT
                !.statuses = Append(@, s),
                !.attempt = IF Retryable(s) /\ call.attempt + 1 < max_retries
                              THEN @ + 1 ELSE @,
                !.pc = IF Retryable(s) /\ call.attempt + 1 < max_retries
                         THEN "post" ELSE "return"]
  /\ UNCHANGED <<auth, ptx, elig, score, emp, service, credits, ledger, txns, reqs, started, pay, purchases, cls>>

\* requests.post raises (connection refused, reset, ...): nothing in the
\* client catches it
PostRaises ==
  /\ call.pc = "post"
  /\ call' = [call EXCEPT !.pc = "raised"]
  /\ UNCHANGED <<auth, ptx, elig, score, emp, service, credits, ledger, txns, reqs, started, pay, purchases, cls>>

\* `return response, tat`: the variable response holds the last response
CallReturn ==
  /\ call.pc = "return"
  /\ call' = [call EXCEPT !.pc = "returned",
                          !.result = call.statuses[Len(call.statuses)]]
  /\ UNCHANGED <<auth, ptx, elig, score, emp, service, credits, ledger, txns, reqs, started, pay, purchases, cls>>

RetryNext ==
  \/ CallStart
  \/ \E s \in ResponseStatuses : Post(s)
  \/ PostRaises
  \/ CallReturn

\* every requests.post comes back, with a response or with an exception, and
\* the thread running the call keeps running
RetrySpec == RetryInit /\ [][RetryNext]_vars /\ WF_vars(RetryNext)

\* ------------------------------------------- Employment-Latest cache lookup
\* One stored transaction of api_name EV_EMPLOYMENT_LATEST with a billable
\* status, written by an earlier request with its kyc_transaction_details,
\* and one request that looks it up. A field that was not provided is "".
MaxProvided == 2
EmpFields == {"uan", "pan", "mobile", "dob", "employer_name", "employee_name"}
EmpValues == {"", "v1", "v2"}
Provided(d) == {f \in EmpFields : d[f] # ""}

\* EmploymentLatestVerificationRequest: at least one field is provided
EmpRequests ==
  {d \in [EmpFields -> EmpValues] :
     Cardinality(Provided(d)) \in 1..MaxProvided}

\* `uan or dob or pan or mobile or employer_name or employee_name`
EmpIdentifier(d) ==
  IF d["uan"] # "" THEN d["uan"]
  ELSE IF d["dob"] # "" THEN d["dob"]
  ELSE IF d["pan"] # "" THEN d["pan"]
  ELSE IF d["mobile"] # "" THEN d["mobile"]
  ELSE IF d["employer_name"] # "" THEN d["employer_name"]
  ELSE d["employee_name"]

\* the $or of the EV_EMPLOYMENT_LATEST branch: some stored field, whichever,
\* equals the one identifier
EmpMatches(stored, identifier) ==
  \/ stored["uan"] = identifier
  \/ stored["pan"] = identifier
  \/ stored["mobile"] = identifier
  \/ stored["dob"] = identifier
  \/ stored["employer_name"] = identifier
  \/ stored["employee_name"] = identifier

EmpInit ==
  /\ service = "KYC_PAN"
  /\ credits = DefaultCredits
  /\ ledger = <<>>
  /\ txns = <<>>
  /\ reqs = [r \in Requests |-> IdleReq]
  /\ started = 0
  /\ pay = IdlePay
  /\ purchases = 0
  /\ cls = NoClass
  /\ call = NoCall
  /\ auth = NoAuth
  /\ ptx = NoPtx
  /\ elig = NoElig
  /\ score = NoScore
  /\ \E st \in EmpRequests, rq \in EmpRequests :
       emp = [NoEmp EXCEPT !.stored = st, !.request = rq]

\* __get_employment_latest_details_from_db calls the repository with the
\* first non-empty field as the identifier
EmpLookup ==
  /\ emp.pc = "idle"
  /\ emp' = [emp EXCEPT
               !.pc = "done",
               !.identifier = EmpIdentifier(emp.request),
               !.hit = EmpMatches(emp.stored, EmpIdentifier(emp.request))]
  /\ UNCHANGED <<auth, ptx, elig, score, service, credits, ledger, txns, reqs, started, pay, purchases,
                 cls, call>>

EmpNext == EmpLookup
EmpSpec == EmpInit /\ [][EmpNext]_vars

\* ------------------------------------------------------ confidence scores
\* MobileLookupHandler / EmailLookupHandler: the scores computed from the
\* `registered` flags of the provider's result. The handlers add 0.4, 0.3, ...
\* and report round(score * 100, 2); here a partial score is counted in tenths
\* and a reported score in hundredths of a point (7000 is 70.0, 2333 is 23.33).
Platforms == {"whatsapp", "instagram", "facebook", "twitter", "amazon",
              "flipkart", "paytm"}
ScoredStatuses == {200, 206, 400, 503}
Flag(registered, platform, weight) == IF platform \in registered THEN weight ELSE 0

\* round(x / d) for a non-negative x
RoundDiv(x, d) == (2 * x + d) \div (2 * d)

\* round(score * 100, 2) of a score given in tenths
Reported(tenths) == RoundDiv(tenths * 1000, 1)

calculate_social_media_score(registered) ==
  Flag(registered, "whatsapp", 4) + Flag(registered, "instagram", 3)
    + Flag(registered, "facebook", 2) + Flag(registered, "twitter", 1)

\* an e-commerce score with the two weights exchanged
calculate_ecommerce_score_Swapped(registered) ==
  Flag(registered, "amazon", 4) + Flag(registered, "flipkart", 6)

calculate_ecommerce_score(registered) ==
  Flag(registered, "amazon", 6) + Flag(registered, "flipkart", 4)

calculate_payment_score(registered) == Flag(registered, "paytm", 10)

\* __determine_total_mobile_confidence_score, __determine_total_email_confidence_score
determine_total_confidence_score(registered, http) ==
  IF http = 200
    THEN LET social_media_score == calculate_social_media_score(registered)
             ecommerce_score == calculate_ecommerce_score(registered)
             payment_score == calculate_payment_score(registered)
         IN [social_media_score |-> Reported(social_media_score),
             ecommerce_score |-> Reported(ecommerce_score),
             payment_score |-> Reported(payment_score),
             confidence_score |->
               RoundDiv((social_media_score + ecommerce_score + payment_score) * 1000, 3)]
    ELSE [social_media_score |-> 0, ecommerce_score |-> 0,
          payment_score |-> 0, confidence_score |-> 0]

ScoreInit ==
  /\ service = "KYC_MOBILE_LOOKUP"
  /\ credits = DefaultCredits
  /\ ledger = <<>>
  /\ txns = <<>>
  /\ reqs = [r \in Requests |-> IdleReq]
  /\ started = 0
  /\ pay = IdlePay
  /\ purchases = 0
  /\ cls = NoClass
  /\ call = NoCall
  /\ auth = NoAuth
  /\ ptx = NoPtx
  /\ elig = NoElig
  /\ emp = NoEmp
  /\ \E t \in {"KYC_MOBILE_LOOKUP", "KYC_EMAIL_LOOKUP"}, h \in ScoredStatuses,
        reg \in SUBSET Platforms :
       score = [NoScore EXCEPT !.t = t, !.http = h, !.registered = reg]

\* the scores are computed for every answer and put into the response only
\* when its http status is 200
AddScores ==
  /\ score.pc = "idle"
  /\ LET confidence_scores ==
           determine_total_confidence_score(score.registered, score.http)
     IN score' = [score EXCEPT
                    !.pc = "done",
                    !.confidence_scores =
                      IF score.http = 200 THEN confidence_scores ELSE NoScores]
  /\ UNCHANGED <<auth, ptx, elig, service, credits, ledger, txns, reqs, started, pay, purchases,
                 cls, call, emp>>

ScoreNext == AddScores
ScoreSpec == ScoreInit /\ [][ScoreNext]_vars

\* ------------------------------------------------------------ price table
\* check_if_eligible and deduct_credits as functions of the service name and
\* of User.credits, for the names of the price table and for names outside it.
MaxBalance == 12
Balances == -1..MaxBalance
PricedTypes == DocTypes \cup {"EV_EMPLOYMENT_LATEST", "EV_EMPLOYMENT_HISTORY"}
ServiceNames == PricedTypes \cup {"CREDIT", "KYC_EMAIL_LOOKUP", "UNKNOWN"}
NoEntry == [type |-> "none", amount |-> 0, balance |-> 0]

\* a validation that lets every service name through
has_value_Any(t) == TRUE

\* UserLedgerTransactionType.has_value as the ledger handler calls it
ledger_has_value(t) == has_value(t)

\* UserLedgerTransactionHandler.check_if_eligible
check_if_eligible(t, balance) ==
  IF ~ledger_has_value(t) THEN FALSE
  ELSE balance >= get_service_cost(t)

\* UserLedgerTransactionHandler.deduct_credits: None (NoEntry) for a name that
\* is not a ledger transaction type, else the inserted ledger transaction
deduct_credits(t, balance) ==
  IF ~ledger_has_value(t) THEN NoEntry
  ELSE [type |-> t, amount |-> -get_service_cost(t),
        balance |-> NewBalance(balance, -get_service_cost(t))]

PriceInit ==
  /\ service = "KYC_PAN"
  /\ credits = DefaultCredits
  /\ ledger = <<>>
  /\ txns = <<>>
  /\ reqs = [r \in Requests |-> IdleReq]
  /\ started = 0
  /\ pay = IdlePay
  /\ purchases = 0
  /\ cls = NoClass
  /\ call = NoCall
  /\ auth = NoAuth
  /\ ptx = NoPtx
  /\ emp = NoEmp
  /\ score = NoScore
  /\ \E t \in ServiceNames, b \in Balances :
       elig = [NoElig EXCEPT !.t = t, !.balance = b]

CheckAndDeduct ==
  /\ elig.pc = "idle"
  /\ elig' = [elig EXCEPT
                !.pc = "done",
                !.cost = get_service_cost(elig.t),
                !.eligible = check_if_eligible(elig.t, elig.balance),
                !.entry = deduct_credits(elig.t, elig.balance)]
  /\ UNCHANGED <<auth, ptx, service, credits, ledger, txns, reqs, started, pay, purchases,
                 cls, call, emp, score>>

PriceNext == CheckAndDeduct
PriceSpec == PriceInit /\ [][PriceNext]_vars

\* ------------------------------------------------- payment callbacks
\* One PaymentTransaction (one payment link) of the user, created with both
\* statuses "pending", and the verification callbacks and webhook events that
\* arrive for it, each handled to its end before the next (the handlers are
\* coroutines without an await between their reads and writes). An event
\* names the payment it is about; ptx.granted counts, per payment, how often
\* credits_purchased was added for it.
MaxEvents == 3
CapturedEvents == {"payment.captured", "payment_link.paid", "order.paid"}

\* PaymentRepository.update_transaction_status(order_id, order_status,
\* payment_status): both statuses of the stored transaction are set
update_transaction_status(t, order_status, payment_status) ==
  [t EXCEPT !.order_status = order_status, !.payment_status = payment_status]

\* PaymentHandler._check_already_processed
check_already_processed(t, razorpay_payment_id) ==
  /\ t.payment_id = razorpay_payment_id
  /\ t.payment_status \in {"captured", "authorized"}

\* UserLedgerTransactionHandler.increase_credits: the ledger transaction
\* inserted and the balance written to User.credits
IncreaseCredits ==
  /\ ledger' = Append(ledger,
                 [type |-> "CREDIT", amount |-> CreditPack,
                  balance |-> NewBalance(credits, CreditPack),
                  prev |-> credits, req |-> 0])
  /\ credits' = update_user_credits(NewBalance(credits, CreditPack))

Received(t, p, event) == [t EXCEPT !.events = @ + 1, !.last = event]
Granted(t, p) == [t EXCEPT !.granted[p] = @ + 1]

PayInit ==
  /\ service = "KYC_PAN"
  /\ credits = DefaultCredits
  /\ ledger = <<>>
  /\ txns = <<>>
  /\ reqs = [r \in Requests |-> IdleReq]
  /\ started = 0
  /\ pay = IdlePay
  /\ purchases = 0
  /\ cls = NoClass
  /\ call = NoCall
  /\ auth = NoAuth
  /\ emp = NoEmp
  /\ score = NoScore
  /\ elig = NoElig
  /\ ptx = NoPtx

\* PaymentHandler.verify_payment with a valid signature and a successful
\* link status: _process_payment_details returns early for a payment already
\* processed, else _finalize_payment updates the transaction and adds credits
VerifyCallback(p) ==
  /\ ptx.events < MaxEvents
  /\ IF check_already_processed(ptx, p)
       THEN /\ ptx' = Received(ptx, p, "verify")
            /\ UNCHANGED <<auth, credits, ledger>>
       ELSE /\ ptx' = Granted(Received(
                        [ptx EXCEPT !.order_status = "paid",
                                    !.payment_status = "captured",
                                    !.payment_id = p], p, "verify"), p)
            /\ IncreaseCredits
  /\ UNCHANGED <<auth, service, txns, reqs, started, pay, purchases, cls, call, emp,
                 score, elig>>

\* handle_webhook for payment.captured, payment_link.paid and order.paid:
\* _update_transaction_for_payment_captured, then increase_credits
WebhookCaptured(p, event) ==
  /\ ptx.events < MaxEvents
  /\ event \in CapturedEvents
  /\ LET t == update_transaction_status(ptx, "paid", "captured")
         u == IF t.payment_id = "none" THEN [t EXCEPT !.payment_id = p] ELSE t
     IN ptx' = Granted(Received(u, p, event), p)
  /\ IncreaseCredits
  /\ UNCHANGED <<auth, service, txns, reqs, started, pay, purchases, cls, call, emp,
                 score, elig>>

\* handle_webhook for payment.authorized: the order status is passed as it is
WebhookAuthorized(p) ==
  /\ ptx.events < MaxEvents
  /\ LET t == update_transaction_status(ptx, ptx.order_status, "authorized")
     IN ptx' = Received([t EXCEPT !.payment_id = p], p, "payment.authorized")
  /\ UNCHANGED <<auth, service, credits, ledger, txns, reqs, started, pay, purchases,
                 cls, call, emp, score, elig>>

\* handle_webhook for payment.failed
WebhookFailed(p) ==
  /\ ptx.events < MaxEvents
  /\ LET t == update_transaction_status(ptx, "failed", "failed")
     IN ptx' = Received([t EXCEPT !.payment_id = p], p, "payment.failed")
  /\ UNCHANGED <<auth, service, credits, ledger, txns, reqs, started, pay, purchases,
                 cls, call, emp, score, elig>>

\* handle_webhook for payment.cancelled
WebhookCancelled(p) ==
  /\ ptx.events < MaxEvents
  /\ LET t == update_transaction_status(ptx, "cancelled", "cancelled")
     IN ptx' = Received([t EXCEPT !.payment_id = p], p, "payment.cancelled")
  /\ UNCHANGED <<auth, service, credits, ledger, txns, reqs, started, pay, purchases,
                 cls, call, emp, score, elig>>

PayNext ==
  \/ \E p \in PaymentIds : VerifyCallback(p)
  \/ \E p \in PaymentIds, event \in CapturedEvents : WebhookCaptured(p, event)
  \/ \E p \in PaymentIds : WebhookAuthorized(p)
  \/ \E p \in PaymentIds : WebhookFailed(p)
  \/ \E p \in PaymentIds : WebhookCancelled(p)

PaySpec == PayInit /\ [][PayNext]_vars

\* ------------------------------------------------------- refresh tokens
\* auth.tokens is the RefreshToken collection (token, user_id, expires_at);
\* auth.issued the refresh JWTs handed out (jti, sub, exp), any of which a
\* client may present at any later time; auth.now the clock, in days.
\* auth.revoked[u] keeps the tokens issued to u before u's latest logout.
\* REFRESH_TOKEN_EXPIRE_DAYS is a deployment setting; the clock runs to MaxTime,
\* far enough for a token to outlive its record
MaxTokens == 2
MaxTime == 2
REFRESH_TOKEN_EXPIRE_DAYS == 2

\* a logout that deletes the presented token only
delete_all_user_tokens_Skipped(tokens, user_id, now) == tokens

\* AuthHandler.delete_all_user_tokens
delete_all_user_tokens(tokens, user_id, now) ==
  {t \in tokens : ~(t.user_id = user_id /\ t.expires_at > now)}

\* AuthHandler.delete_refresh_token: by jti alone
delete_refresh_token(tokens, token) == {t \in tokens : t.token # token.jti}

\* AuthHandler.verify_refresh_token: the JWT decodes (it has not expired) and
\* a record with its jti, its user and a later expiry is stored
verify_refresh_token(tokens, token, now) ==
  /\ token.exp > now
  /\ \E t \in tokens :
       /\ t.token = token.jti
       /\ t.user_id = token.sub
       /\ t.expires_at > now

AuthInit ==
  /\ service = "KYC_PAN"
  /\ credits = DefaultCredits
  /\ ledger = <<>>
  /\ txns = <<>>
  /\ reqs = [r \in Requests |-> IdleReq]
  /\ started = 0
  /\ pay = IdlePay
  /\ purchases = 0
  /\ cls = NoClass
  /\ call = NoCall
  /\ emp = NoEmp
  /\ score = NoScore
  /\ elig = NoElig
  /\ ptx = NoPtx
  /\ auth = NoAuth

Others ==
  <<service, credits, ledger, txns, reqs, started, pay, purchases, cls, call,
    emp, score, elig, ptx>>

\* login_user, create_refresh_token: a fresh jti, a stored record, a JWT
Login(u) ==
  /\ Cardinality(auth.issued) < MaxTokens
  /\ LET jti == Cardinality(auth.issued) + 1
         expires_at == auth.now + REFRESH_TOKEN_EXPIRE_DAYS
     IN auth' = [auth EXCEPT
                   !.tokens = @ \cup {[token |-> jti, user_id |-> u,
                                       expires_at |-> expires_at]},
                   !.issued = @ \cup {[jti |-> jti, sub |-> u, exp |-> expires_at]}]
  /\ UNCHANGED Others

\* refresh_user_token: 401 unless verify_refresh_token gives a user
RefreshUserToken(token) ==
  /\ token \in auth.issued
  /\ auth' = [auth EXCEPT
                !.last = [token |-> token,
                          http |-> IF verify_refresh_token(auth.tokens, token, auth.now)
                                     THEN 200 ELSE 401]]
  /\ UNCHANGED Others

\* logout_user, first statement: the presented token is deleted
LogoutDeletePresented(u, token) ==
  /\ auth.logout = "none"
  /\ token \in auth.issued
  /\ auth' = [auth EXCEPT
                !.tokens = delete_refresh_token(@, token),
                !.logout = u]
  /\ UNCHANGED Others

\* logout_user, second statement: the user's unexpired tokens are deleted and
\* the logout has succeeded
LogoutDeleteAll ==
  /\ auth.logout # "none"
  /\ auth' = [auth EXCEPT
                !.tokens = delete_all_user_tokens(@, auth.logout, auth.now),
                !.revoked[auth.logout] = {t \in auth.issued : t.sub = auth.logout},
                !.logout = "none"]
  /\ UNCHANGED Others

\* a day passes
Tick ==
  /\ auth.now < MaxTime
  /\ auth' = [auth EXCEPT !.now = @ + 1]
  /\ UNCHANGED Others

AuthNext ==
  \/ \E u \in Users : Login(u)
  \/ \E token \in auth.issued : RefreshUserToken(token)
  \/ \E u \in Users, token \in auth.issued : LogoutDeletePresented(u, token)
  \/ LogoutDeleteAll
  \/ Tick

AuthSpec == AuthInit /\ [][AuthNext]_vars

\* ------------------------------------------------- classification table
\* The classifiers as pure functions: a run takes a document type, an HTTP
\* status and the status_code of the body, and classifies them once.
ClassTypes == DocTypes \cup {"KYC_EMAIL_LOOKUP", "EV_EMPLOYMENT_LATEST"}
HttpStatuses == {200, 206, 400, 404, 429, 500, 503}
ProviderCodes == {NoCode, 100, 101, 102, 103}

ClassInit ==
  /\ service = "KYC_PAN"
  /\ credits = DefaultCredits
  /\ ledger = <<>>
  /\ txns = <<>>
  /\ reqs = [r \in Requests |-> IdleReq]
  /\ started = 0
  /\ pay = IdlePay
  /\ purchases = 0
  /\ call = NoCall
  /\ auth = NoAuth
  /\ ptx = NoPtx
  /\ elig = NoElig
  /\ score = NoScore
  /\ emp = NoEmp
  /\ \E t \in ClassTypes, h \in HttpStatuses, c \in ProviderCodes :
       cls = [NoClass EXCEPT !.t = t, !.http = h, !.code = c]

\* the handler's classifier on the provider's answer and, for PAN and RC, the
\* classification _handle_cached_record makes of the same answer once stored
Classify ==
  /\ cls.status = "none"
  /\ cls' = [cls EXCEPT
               !.status = determine_status(cls.t, cls.http, cls.code),
               !.cached = IF cls.t \in LegacyTypes
                            THEN LegacyCachedStatus(cls.t, cls.http, cls.code)
                            ELSE "none"]
  /\ UNCHANGED <<auth, ptx, elig, score, emp, service, credits, ledger, txns, reqs, started, pay, purchases,
                 call>>

ClassNext == Classify
ClassSpec == ClassInit /\ [][ClassNext]_vars

\* ------------------------------------------------------------------ claims
Done(r) == reqs[r].pc = "done"
Returned(r) == Done(r) /\ reqs[r].out = "Returned"
Deductions(r) == {i \in 1..Len(ledger) : ledger[i].req = r}
HasTxn(r) == reqs[r].txn # 0
OwnTxn(r) == txns[reqs[r].txn]
Contains(seq, x) == \E i \in 1..Len(seq) : seq[i] = x

\* C1: a finished request has written a ledger deduction if and only if the
\* final status of its transaction is in the type's billable-status set,
\* whether it was served from the cache or by a live provider call.
C1_BillingOnOutcome ==
  \A r \in Requests :
    Done(r) =>
      ((Deductions(r) # {}) <=>
         (HasTxn(r) /\ OwnTxn(r).status \in BillableStatus(service)))

\* C2: a request whose eligibility check saw a balance below the type's price
\* has failed with InsufficientCredits, has not called the provider, and has
\* written neither a transaction nor a ledger entry.
C2_InsufficientShortCircuit ==
  \A r \in Requests :
    (reqs[r].seen # -1 /\ reqs[r].seen < get_service_cost(service)) =>
      /\ Done(r)
      /\ reqs[r].out = "InsufficientCredits"
      /\ reqs[r].calls = 0
      /\ Deductions(r) = {}
      /\ ~HasTxn(r)
      /\ \A i \in 1..Len(txns) : txns[i].req # r

C2_Witness ==
  \E r \in Requests :
    /\ reqs[r].out = "InsufficientCredits"
    /\ reqs[r].seen < get_service_cost(service)
    /\ \E q \in Requests : q < r /\ Deductions(q) # {}

\* C3: the step that looks the cache up hits only on a stored transaction
\* with the request's identifier in the type's identifier field and a status
\* of the type's billable set; when every stored transaction for the
\* identifier has a status outside that set, the lookup misses and the
\* request goes on to the provider call.
C3_CacheKey ==
  [][\A r \in Requests :
       (reqs[r].pc = "lookup" /\ reqs'[r].pc # "lookup") =>
         /\ reqs'[r].pc = "cached" =>
              \E i \in 1..Len(txns) :
                /\ reqs'[r].cached = txns[i]
                /\ txns[i].field = KeyField(service)
                /\ txns[i].key = reqs[r].key
                /\ txns[i].status \in BillSet(service)
         /\ (\A i \in 1..Len(txns) :
               txns[i].key = reqs[r].key => txns[i].status \notin BillSet(service))
              => reqs'[r].pc = "provider"]_vars

\* a request missed the cache and called the provider although an earlier
\* request had stored a transaction for the same identifier, with a status
\* that is not billable
C3_Witness ==
  \E r \in Requests, i \in 1..Len(txns) :
    /\ txns[i].req < r
    /\ txns[i].key = reqs[r].key
    /\ txns[i].status \in {"ERROR", "BAD_REQUEST"}
    /\ Done(txns[i].req)
    /\ reqs[r].src = 0
    /\ reqs[r].calls = 1

\* C4: a request for an identifier for which a FOUND transaction was stored
\* when it started returns that transaction's provider_response, records its
\* own transaction with is_cached = true and does not call the provider.
C4_IdempotentReserving ==
  \A r \in Requests :
    (Returned(r) /\ reqs[r].pre # {}) =>
      /\ reqs[r].calls = 0
      /\ HasTxn(r) /\ OwnTxn(r).is_cached
      /\ \A i \in reqs[r].pre : reqs[r].ret = txns[i].resp

\* C5: when the requests for an identifier run one after another, all with
\* enough credits, and the first of them was answered by the provider with a
\* billable status, the provider was called once for them all and each of
\* them wrote one deduction of the type's price.
RequestsFor(k) == {r \in Requests : reqs[r].pc # "idle" /\ reqs[r].key = k}
SumCalls(R) ==
  LET f[S \in SUBSET Requests] ==
        IF S = {} THEN 0
        ELSE LET x == CHOOSE y \in S : TRUE IN reqs[x].calls + f[S \ {x}]
  IN f[R]

C5_BilledOnEveryLookup ==
  \A k \in Keys :
    LET R == RequestsFor(k)
    IN (/\ R # {}
        /\ \A r \in R : Returned(r)
        /\ \E r \in R : /\ \A q \in R : r <= q
                        /\ reqs[r].calls = 1
                        /\ reqs[r].status \in BillableStatus(service))
       => /\ SumCalls(R) = 1
          /\ \A r \in R :
               /\ Cardinality(Deductions(r)) = 1
               /\ \A i \in Deductions(r) :
                    ledger[i].amount = -get_service_cost(service)

\* C6: the steps of a request are taken in the order eligibility check,
\* placeholder creation, cache lookup, provider call, classification,
\* persistence, billing: the provider is called only after a lookup that
\* missed, and a deduction is started only after the request's transaction
\* has got its final status.
Rank(step) ==
  CASE step = "eligibility" -> 1
    [] step = "placeholder" -> 2
    [] step = "lookup" -> 3
    [] step = "provider" -> 4
    [] step = "classify" -> 5
    [] step = "persist" -> 6
    [] step = "bill" -> 7
    [] OTHER -> 0

Billing(r) == reqs[r].pc \in {"led_insert", "led_write"} \/ Deductions(r) # {}

C7_UnguardedWrite ==
  [][\A r \in Requests :
       (reqs[r].pc = "led_write" /\ reqs'[r].pc = "done") =>
         /\ credits' = reqs[r].prev - get_service_cost(service)
         /\ \E i \in Deductions(r) :
              /\ ledger[i].prev = reqs[r].prev
              /\ ledger[i].balance = credits']_vars

\* the lost update: two finished requests have each written a deduction, both
\* computed from the same balance, and User.credits is one price below it
C7_Witness ==
  \E r1, r2 \in Requests :
    /\ r1 # r2 /\ Done(r1) /\ Done(r2)
    /\ purchases = 0
    /\ Len(ledger) = 2
    /\ ledger[1].req = r1 /\ ledger[2].req = r2
    /\ ledger[1].prev = DefaultCredits /\ ledger[2].prev = DefaultCredits
    /\ credits = DefaultCredits - get_service_cost(service)

\* C8: when the operations on a user's credits run one after another, the
\* newest ledger transaction's balance equals User.credits after each of them.
Quiescent == ActiveRequests = {} /\ pay.pc = "idle"

C8_BalanceConsistency ==
  (Quiescent /\ ledger # <<>>) => ledger[Len(ledger)].balance = credits

\* C9: nothing excludes two requests for one identifier from each other: a
\* request whose lookup missed calls the provider itself and, when its own
\* outcome is billable, is billed itself, whatever another request for the
\* same identifier has done in the meantime (see C9_Witness).
C9_NoPerKeyExclusion ==
  \A r \in Requests :
    (Returned(r) /\ Contains(reqs[r].log, "lookup") /\ reqs[r].src = 0) =>
      /\ reqs[r].calls = 1
      /\ reqs[r].status \in BillSet(service) => Cardinality(Deductions(r)) = 1

\* two requests of a type with a working cache lookup, for the same
\* identifier, have both missed the cache, both called the provider and both
\* been billed
C9_Witness ==
  \E r1, r2 \in Requests :
    /\ r1 # r2
    /\ HasLookupBranch(service) /\ ~Legacy
    /\ reqs[r1].key = reqs[r2].key
    /\ \A r \in {r1, r2} :
         /\ Returned(r)
         /\ reqs[r].src = 0
         /\ reqs[r].calls = 1
         /\ ~OwnTxn(r).is_cached
         /\ Deductions(r) # {}

\* C10: a request that has passed the eligibility check has a transaction of
\* its own, created with status ERROR, http_status_code 500 and provider_name
\* INTERNAL, and when the handler has returned normally that transaction has
\* been updated exactly once.
C10_PlaceholderLifecycle ==
  \A r \in Requests :
    /\ reqs[r].pc \in {"lookup", "cached", "provider"} =>
         /\ HasTxn(r)
         /\ OwnTxn(r).status = "ERROR"
         /\ OwnTxn(r).http = 500
         /\ OwnTxn(r).provider = "INTERNAL"
         /\ OwnTxn(r).writes = 0
    /\ Returned(r) => (HasTxn(r) /\ OwnTxn(r).writes = 1)

\* the HTTP status the caller of a finished request receives
ApiStatus(r) == verify_endpoint(reqs[r].out, reqs[r].http)

\* the provider call of the request, or the parsing of its body, raised
CallRaised(r) ==
  /\ Done(r)
  /\ Contains(reqs[r].log, "provider")
  /\ ~Contains(reqs[r].log, "classify")

\* C11: when the provider call or the parsing of its body raises, the
\* exception propagates out of the handler, the request's transaction stays
\* at status ERROR with http_status_code 500, no deduction is written, and
\* the caller receives HTTP 500.
C11_TransportFailure ==
  \A r \in Requests :
    CallRaised(r) =>
      /\ reqs[r].out = "Raised"
      /\ HasTxn(r)
      /\ OwnTxn(r).status = "ERROR"
      /\ OwnTxn(r).http = 500
      /\ Deductions(r) = {}
      /\ ApiStatus(r) = 500

\* C12: a request that failed with InsufficientCredits is answered with HTTP
\* 402, never with 400 or 500.
C12_InsufficientIs402 ==
  \A r \in Requests :
    (Done(r) /\ reqs[r].out = "InsufficientCredits") => ApiStatus(r) = 402

C12_Witness ==
  \E r \in Requests :
    /\ Done(r)
    /\ reqs[r].out = "InsufficientCredits"
    /\ reqs[r].log = <<"eligibility">>
    /\ ApiStatus(r) = 402

\* a classifier run of type t has finished
Classified(t) == cls.t = t /\ cls.status # "none"

\* C13: the PAN classifier gives FOUND for (200, 100), NOT_FOUND for
\* (200, 102) and BAD_REQUEST for http 400 with any status_code.
C13_PanTable ==
  Classified("KYC_PAN") =>
    /\ (cls.http = 200 /\ cls.code = 100) => cls.status = "FOUND"
    /\ (cls.http = 200 /\ cls.code = 102) => cls.status = "NOT_FOUND"
    /\ cls.http = 400 => cls.status = "BAD_REQUEST"

\* C14: the Voter, DL, Passport and Aadhaar classifiers give FOUND for http
\* 200 with status_code 100 or 101, NOT_FOUND for http 200 with status_code
\* 102, and BAD_REQUEST for http 400.
C14_CodeTable ==
  (cls.t \in {"KYC_VOTER", "KYC_DL", "KYC_PASSPORT", "KYC_AADHAAR"}
     /\ cls.status # "none") =>
    /\ (cls.http = 200 /\ cls.code \in {100, 101}) => cls.status = "FOUND"
    /\ (cls.http = 200 /\ cls.code = 102) => cls.status = "NOT_FOUND"
    /\ cls.http = 400 => cls.status = "BAD_REQUEST"

\* C15: for PAN, RC, Voter, DL, Passport and Aadhaar, a provider answer with
\* http 200 and a status_code other than 100, 101 and 102 (or none) is
\* classified as ERROR, is stored on the request's transaction, and is not
\* billed.
C15_UnclassifiedIsError ==
  \A r \in Requests :
    (/\ service \in {"KYC_PAN", "KYC_RC", "KYC_VOTER", "KYC_DL",
                     "KYC_PASSPORT", "KYC_AADHAAR"}
     /\ Done(r)
     /\ Contains(reqs[r].log, "classify")
     /\ reqs[r].answer.http = 200
     /\ reqs[r].answer.code \notin {100, 101, 102}) =>
      /\ reqs[r].status = "ERROR"
      /\ HasTxn(r)
      /\ OwnTxn(r).status = "ERROR"
      /\ OwnTxn(r).http = 200
      /\ OwnTxn(r).resp = BodyOf(reqs[r].answer)
      /\ Deductions(r) = {}

\* a status is billed by the handler of type t (the Email Lookup handler
\* tests the Mobile Lookup list), and a transaction stored with it is one
\* the cache lookup of type t hits on
Billed(t, status) ==
  status \in (IF t = "KYC_EMAIL_LOOKUP" THEN BillableStatus("KYC_MOBILE_LOOKUP")
              ELSE BillSet(t))
Cacheable(t, status) ==
  /\ HasLookupBranch(t)
  /\ Matches([api |-> t, field |-> KeyField(t), key |-> "k1", status |-> status],
             t, "k1", BillSet(t))

\* C16: http 429 is TOO_MANY_REQUESTS for the RC, Mobile Lookup and Email
\* Lookup classifiers; http 206 is NOT_FOUND for RC, which is billed and
\* cacheable, and PARTIAL_CONTENT for Mobile Lookup and Email Lookup, which
\* is neither billed nor served from the cache.
C16_HttpOnlyTable ==
  cls.status # "none" =>
    /\ (cls.t \in {"KYC_RC", "KYC_MOBILE_LOOKUP", "KYC_EMAIL_LOOKUP"}
          /\ cls.http = 429) => cls.status = "TOO_MANY_REQUESTS"
    /\ (cls.t = "KYC_RC" /\ cls.http = 206) =>
         /\ cls.status = "NOT_FOUND"
         /\ Billed(cls.t, cls.status)
         /\ Cacheable(cls.t, cls.status)
    /\ (cls.t \in {"KYC_MOBILE_LOOKUP", "KYC_EMAIL_LOOKUP"} /\ cls.http = 206) =>
         /\ cls.status = "PARTIAL_CONTENT"
         /\ ~Billed(cls.t, cls.status)
         /\ ~Cacheable(cls.t, cls.status)

C16_Witness ==
  /\ cls.t = "KYC_RC"
  /\ cls.http = 206
  /\ cls.status = "NOT_FOUND"
  /\ Billed("KYC_RC", cls.status)
  /\ ~Billed("KYC_MOBILE_LOOKUP", MobileStatus(cls.http))

\* C17 as stated: http 503 is SOURCE_DOWN for the Aadhaar classifier and
\* ERROR for the classifier of every other type.
C17_SourceDownAadhaarOnly ==
  (cls.status # "none" /\ cls.http = 503) =>
    cls.status = (IF cls.t = "KYC_AADHAAR" THEN "SOURCE_DOWN" ELSE "ERROR")

\* C17: http 503 is SOURCE_DOWN for exactly the Aadhaar, Mobile Lookup, Email
\* Lookup and GSTIN classifiers; no classifier gives SOURCE_DOWN otherwise,
\* and the Voter, DL, Passport, RC and Employment classifiers give ERROR for
\* http 503.
SourceDownTypes ==
  {"KYC_AADHAAR", "KYC_MOBILE_LOOKUP", "KYC_EMAIL_LOOKUP", "KYB_GSTIN"}

C17_SourceDownTable ==
  cls.status # "none" =>
    /\ (cls.http = 503 /\ cls.t \in SourceDownTypes) => cls.status = "SOURCE_DOWN"
    /\ cls.status = "SOURCE_DOWN" => (cls.http = 503 /\ cls.t \in SourceDownTypes)
    /\ (cls.http = 503 /\ cls.t \in {"KYC_VOTER", "KYC_DL", "KYC_PASSPORT",
                                     "KYC_RC", "EV_EMPLOYMENT_LATEST"})
         => cls.status = "ERROR"

C17_Witness ==
  /\ cls.t = "KYB_GSTIN"
  /\ cls.http = 503
  /\ cls.status = "SOURCE_DOWN"

ApiContent(r) == verify_endpoint_content(reqs[r].out, reqs[r].http, reqs[r].ret)

\* C18: a provider answer with http 400, 429 or 503 does not raise out of
\* the handler: the request's transaction is stored with that http status
\* and a status other than FOUND, no deduction is written, and the caller
\* receives that http status with message "Failure" and the provider's
\* message in the error field.
C18_ProviderErrorReturned ==
  \A r \in Requests :
    (/\ Done(r)
     /\ Contains(reqs[r].log, "classify")
     /\ reqs[r].answer.http \in ErrorStatuses) =>
      /\ reqs[r].out = "Returned"
      /\ HasTxn(r)
      /\ OwnTxn(r).http = reqs[r].answer.http
      /\ OwnTxn(r).status # "FOUND"
      /\ Deductions(r) = {}
      /\ ApiStatus(r) = reqs[r].answer.http
      /\ ApiContent(r).message = "Failure"
      /\ ApiContent(r).error = reqs[r].answer.body

\* C19: the provider client makes at most max_retries (3) attempts, makes a
\* further attempt only when the previous response status was 5xx, never
\* retries after a response that is not 5xx, always terminates, and returns
\* the response of the last attempt made.
AttemptsMade == Len(call.statuses)
Is5xx(status) == status \in 500..599

C20_PanEndToEnd ==
  \A r \in Requests :
    (/\ service = "KYC_PAN"
     /\ started = 1
     /\ purchases = 0
     /\ Done(r)
     /\ reqs[r].answer.http = 200
     /\ reqs[r].answer.code = 100) =>
      /\ Len(txns) = 1
      /\ txns[1].status = "FOUND"
      /\ txns[1].is_cached = FALSE
      /\ Len(ledger) = 1
      /\ ledger[1].amount = -get_service_cost("KYC_PAN")
      /\ ledger[1].balance = DefaultCredits - get_service_cost("KYC_PAN")
      /\ credits = DefaultCredits - get_service_cost("KYC_PAN")
      /\ ApiStatus(r) = 200

\* C21: in every finalized transaction, is_cached is true and provider_name
\* is INTERNAL exactly when the result was served from a cached transaction
\* without a provider call, and is_cached is false and provider_name is the
\* external provider exactly when the provider client was called in that
\* request.
Finalized(r) == Returned(r) /\ HasTxn(r) /\ Contains(reqs[r].log, "persist")
ServedFromCache(r) == reqs[r].src # 0 /\ reqs[r].calls = 0
ProviderCalled(r) == reqs[r].calls > 0

C21_Provenance ==
  \A r \in Requests :
    Finalized(r) =>
      /\ (OwnTxn(r).is_cached /\ OwnTxn(r).provider = "INTERNAL")
           <=> ServedFromCache(r)
      /\ (~OwnTxn(r).is_cached /\ OwnTxn(r).provider = "AITAN")
           <=> ProviderCalled(r)

\* C22: no transaction is modified or deleted after the request that created
\* it has completed; serving a cache hit writes only the current request's
\* own transaction and leaves every field of the cached source unchanged.
C22_ImmutableAfterCompletion ==
  [][/\ Len(txns') >= Len(txns)
     /\ \A i \in 1..Len(txns) : Done(txns[i].req) => txns'[i] = txns[i]
     /\ \A r \in Requests :
          (reqs[r].pc = "cached" /\ reqs'[r].pc # "cached") =>
            \A i \in 1..Len(txns) : i # reqs[r].txn => txns'[i] = txns[i]]_vars

C22_Witness ==
  \E r \in Requests :
    /\ ~Legacy
    /\ Returned(r)
    /\ reqs[r].src # 0
    /\ Done(txns[reqs[r].src].req)
    /\ txns[reqs[r].src] = reqs[r].cached
    /\ OwnTxn(r).is_cached
    /\ OwnTxn(r).writes = 1

\* C23: the ledger is append-only: no step updates or deletes an existing
\* ledger transaction, and every credit purchase that has been carried out
\* has inserted a ledger transaction of its own.
CreditEntries == {i \in 1..Len(ledger) : ledger[i].type = "CREDIT"}

C23_AppendOnlyLedger ==
  /\ [][/\ Len(ledger') >= Len(ledger)
        /\ \A i \in 1..Len(ledger) : ledger'[i] = ledger[i]]_vars
  /\ [](pay.pc = "idle" => Cardinality(CreditEntries) = purchases)

\* C24: when the operations of a user run one after another, every ledger
\* deduction is written in a request whose eligibility check found a balance
\* of at least the price, and neither User.credits nor the balance of any
\* ledger transaction is negative.
C24_NeverNegative ==
  /\ credits >= 0
  /\ \A i \in 1..Len(ledger) :
       /\ ledger[i].balance >= 0
       /\ ledger[i].amount < 0 =>
            /\ ledger[i].req \in Requests
            /\ reqs[ledger[i].req].seen >= get_service_cost(service)
            /\ ledger[i].prev >= -ledger[i].amount

C24_Witness ==
  \E r1, r2 \in Requests :
    /\ Returned(r1)
    /\ Deductions(r1) # {}
    /\ reqs[r1].seen >= get_service_cost(service)
    /\ credits = 0
    /\ ledger[Len(ledger)].balance = 0
    /\ Done(r2)
    /\ reqs[r2].out = "InsufficientCredits"

\* C25: the Employment-Latest cache lookup is an OR-query across the fields
\* provided in the request: a stored billable transaction is a hit when, for
\* at least one provided non-empty field, its stored value of that same field
\* equals the request's value; the identifier of the lookup is the first
\* non-empty field in a fixed priority order.
SameFieldMatch(stored, request) ==
  \E f \in Provided(request) : stored[f] = request[f]

C25_OrQuery ==
  emp.pc = "done" =>
    /\ SameFieldMatch(emp.stored, emp.request) => emp.hit
    /\ \E f \in Provided(emp.request) : emp.identifier = emp.request[f]

\* C26: for a Mobile or Email Lookup answer with http status 200 the reported
\* scores are social_media = 40*whatsapp + 30*instagram + 20*facebook +
\* 10*twitter, ecommerce = 60*amazon + 40*flipkart, payment = 100*paytm and
\* confidence = (social_media + ecommerce + payment) / 3 rounded to 2
\* decimals; for any other http status no score is put into the response.
\* Scores are in hundredths of a point.
Bit(platform) == IF platform \in score.registered THEN 1 ELSE 0
ClaimedSocial ==
  4000 * Bit("whatsapp") + 3000 * Bit("instagram") + 2000 * Bit("facebook")
    + 1000 * Bit("twitter")
ClaimedEcommerce == 6000 * Bit("amazon") + 4000 * Bit("flipkart")
ClaimedPayment == 10000 * Bit("paytm")

C26_ConfidenceScores ==
  score.pc = "done" =>
    IF score.http = 200
      THEN /\ score.confidence_scores.social_media_score = ClaimedSocial
           /\ score.confidence_scores.ecommerce_score = ClaimedEcommerce
           /\ score.confidence_scores.payment_score = ClaimedPayment
           /\ score.confidence_scores.confidence_score =
                RoundDiv(ClaimedSocial + ClaimedEcommerce + ClaimedPayment, 3)
      ELSE score.confidence_scores = NoScores

C26_Witness ==
  /\ score.pc = "done"
  /\ score.http = 200
  /\ score.registered = {"whatsapp", "instagram"}
  /\ score.confidence_scores =
       [social_media_score |-> 7000, ecommerce_score |-> 0,
        payment_score |-> 0, confidence_score |-> 2333]

\* C27 as stated: a service type with no entry in the price table costs 0,
\* its eligibility check succeeds for any non-negative balance, and a
\* deduction for it writes a ledger entry of amount 0.
C27_FailOpen ==
  (elig.pc = "done" /\ elig.t \notin PricedTypes) =>
    /\ elig.cost = 0
    /\ elig.balance >= 0 => elig.eligible
    /\ elig.entry # NoEntry
    /\ elig.entry.amount = 0

\* C27: a service type with no entry in the price table costs 0. When its
\* name is a ledger transaction type (CREDIT), the eligibility check succeeds
\* for any non-negative balance and a deduction writes a ledger entry of
\* amount 0 that leaves the balance as it was; when it is not, the
\* eligibility check fails and a deduction writes nothing.
C27_ValidatedFailOpen ==
  (elig.pc = "done" /\ elig.t \notin PricedTypes) =>
    /\ elig.cost = 0
    /\ IF has_value(elig.t)
         THEN /\ elig.balance >= 0 => elig.eligible
              /\ elig.entry.type = elig.t
              /\ elig.entry.amount = 0
              /\ elig.entry.balance = elig.balance
         ELSE /\ ~elig.eligible
              /\ elig.entry = NoEntry

C27_Witness ==
  /\ elig.pc = "done"
  /\ elig.t = "CREDIT"
  /\ elig.balance = 0
  /\ elig.cost = 0
  /\ elig.eligible
  /\ elig.entry = [type |-> "CREDIT", amount |-> 0, balance |-> 0]

\* C28: for one payment, credits_purchased is added to the user's balance at
\* most once over any sequence of verification callbacks and webhook events
\* (payment.captured, payment_link.paid, order.paid) that refer to it.
C28_CreditedOnce ==
  \A p \in PaymentIds :
    /\ ptx.granted[p] <= 1
    /\ credits <= DefaultCredits + CreditPack * Cardinality({q \in PaymentIds : ptx.granted[q] > 0})

\* C29: once the payment transaction is captured / paid and its credits have
\* been granted, no later event changes its payment_status or order_status.
CapturedAndGranted(t) ==
  /\ t.payment_status = "captured"
  /\ t.order_status = "paid"
  /\ \E p \in PaymentIds : t.granted[p] > 0

Refreshed == auth'.last # auth.last
MatchingRecord(token) ==
  \E t \in auth.tokens :
    /\ t.token = token.jti
    /\ t.user_id = token.sub
    /\ t.expires_at > auth.now

C30_LogoutRevokes ==
  [][Refreshed =>
       /\ auth'.last.token \in auth.revoked[auth'.last.token.sub]
            => auth'.last.http = 401
       /\ auth'.last.http = 200 => MatchingRecord(auth'.last.token)
       /\ auth'.last.http \in {200, 401}]_vars

C30_Witness ==
  /\ auth.last.http = 401
  /\ auth.last.token \in auth.revoked[auth.last.token.sub]
  /\ auth.last.token.exp > auth.now
  /\ Cardinality(auth.revoked[auth.last.token.sub]) >= 2

====
